---- MODULE Spec2Model ----
(***************************************************************************)
(* 3D Submarines game (src/main.py): shape library, Piece, Board3D, Game.  *)
(* Coordinates are <<x, y, z>>; players are 0 and 1 as in the source.      *)
(***************************************************************************)
EXTENDS Integers, Sequences, FiniteSets, TLC

VARIABLES cfg, boards, shots, current, status, winner, err, last, told, view,
          arg, result

vars == <<cfg, boards, shots, current, status, winner, err, last, told, view,
          arg, result>>

(***************************************************************************)
(* Bounds of the model.                                                    *)
(***************************************************************************)
\* the game loop accepts a fire while fewer than MaxShots have been fired
MaxShots == 4

\* the largest offset set handed to the helper functions
MaxCells == 3

(***************************************************************************)
(* Shape library                                                           *)
(***************************************************************************)
SetMin(S) == CHOOSE m \in S : \A e \in S : m <= e
SetMax(S) == CHOOSE m \in S : \A e \in S : m >= e

\* only the x coordinates shifted
normalize_XOnly(offsets) ==
    LET xs == {o[1] : o \in offsets}
        min_x == SetMin(xs)
    IN  {<<o[1] - min_x, o[2]>> : o \in offsets}

normalize(offsets) ==
    LET xs == {o[1] : o \in offsets}
        ys == {o[2] : o \in offsets}
        min_x == SetMin(xs)
        min_y == SetMin(ys)
    IN  {<<o[1] - min_x, o[2] - min_y>> : o \in offsets}

Rotate90(current_) == {<<o[2], 0 - o[1]>> : o \in current_}

InList(x, list) == \E i \in 1..Len(list) : list[i] = x

RECURSIVE RotLoop(_, _, _)
RotLoop(configs, current_, n) ==
    IF n = 0 THEN configs
    ELSE LET norm == normalize(current_)
         IN  RotLoop(IF InList(norm, configs) THEN configs ELSE Append(configs, norm),
                     Rotate90(current_), n - 1)

\* the loop run three times
get_rotations_ThreeTurns(base) == RotLoop(<<>>, base, 3)

get_rotations(base) == RotLoop(<<>>, base, 4)

PieceType == {"SUBMARINE", "DESTROYER", "JET", "GENERAL"}

\* Enum auto() values
PieceValue(ptype) ==
    CASE ptype = "SUBMARINE" -> 1
      [] ptype = "DESTROYER" -> 2
      [] ptype = "JET"       -> 3
      [] ptype = "GENERAL"   -> 4

SHAPES_2D(ptype) ==
    CASE ptype = "SUBMARINE" -> get_rotations({<<0,0>>, <<1,0>>, <<2,0>>})
      [] ptype = "DESTROYER" -> get_rotations({<<0,0>>, <<1,0>>, <<2,0>>, <<3,0>>})
      [] ptype = "JET"       -> get_rotations({<<0-1,0>>, <<0,0>>, <<1,0>>, <<0,0-1>>, <<0,1>>, <<0,2>>})
      [] ptype = "GENERAL"   -> <<normalize({<<0,0>>})>>

(***************************************************************************)
(* Piece                                                                   *)
(***************************************************************************)
SingleHitTypes == {"SUBMARINE", "JET", "GENERAL"}

\* register_hit comparing hits with coords before recording the hit
register_hit_CompareBeforeAdd(piece, coord) ==
    IF coord \notin piece.coords
    THEN [piece |-> piece, sig |-> "MISS"]
    ELSE LET hit == [piece EXCEPT !.hits = piece.hits \cup {coord}]
         IN  IF piece.piece_type \in SingleHitTypes
             THEN [piece |-> hit, sig |-> "KILL"]
             ELSE IF piece.hits = piece.coords
                  THEN [piece |-> hit, sig |-> "KILL"]
                  ELSE [piece |-> hit, sig |-> "HIT"]

\* register_hit treating only the GENERAL as single-hit
register_hit_OnlyGeneral(piece, coord) ==
    IF coord \notin piece.coords
    THEN [piece |-> piece, sig |-> "MISS"]
    ELSE LET hit == [piece EXCEPT !.hits = piece.hits \cup {coord}]
         IN  IF piece.piece_type = "GENERAL"
             THEN [piece |-> hit, sig |-> "KILL"]
             ELSE IF hit.hits = hit.coords
                  THEN [piece |-> hit, sig |-> "KILL"]
                  ELSE [piece |-> hit, sig |-> "HIT"]

\* register_hit recording the hit before testing that coord is one of its cells
register_hit_AddFirst(piece, coord) ==
    LET hit == [piece EXCEPT !.hits = piece.hits \cup {coord}]
    IN  IF coord \notin piece.coords
        THEN [piece |-> hit, sig |-> "MISS"]
        ELSE IF piece.piece_type \in SingleHitTypes
             THEN [piece |-> hit, sig |-> "KILL"]
             ELSE IF hit.hits = hit.coords
                  THEN [piece |-> hit, sig |-> "KILL"]
                  ELSE [piece |-> hit, sig |-> "HIT"]

\* register_hit answering MISS for a cell that was hit before
register_hit_RepeatMiss(piece, coord) ==
    IF coord \notin piece.coords \/ coord \in piece.hits
    THEN [piece |-> piece, sig |-> "MISS"]
    ELSE LET hit == [piece EXCEPT !.hits = piece.hits \cup {coord}]
         IN  IF piece.piece_type \in SingleHitTypes
             THEN [piece |-> hit, sig |-> "KILL"]
             ELSE IF hit.hits = hit.coords
                  THEN [piece |-> hit, sig |-> "KILL"]
                  ELSE [piece |-> hit, sig |-> "HIT"]

\* Piece.register_hit: the piece after the call and the Signal returned
register_hit(piece, coord) ==
    IF coord \notin piece.coords
    THEN [piece |-> piece, sig |-> "MISS"]
    ELSE LET hit == [piece EXCEPT !.hits = piece.hits \cup {coord}]
         IN  IF piece.piece_type \in SingleHitTypes
             THEN [piece |-> hit, sig |-> "KILL"]
             ELSE IF hit.hits = hit.coords
                  THEN [piece |-> hit, sig |-> "KILL"]
                  ELSE [piece |-> hit, sig |-> "HIT"]

(***************************************************************************)
(* Board3D                                                                 *)
(***************************************************************************)
\* Board3D.__init__ ; occupied maps a coordinate to the index of its piece
NewBoard(depth, rows, cols) ==
    [depth |-> depth, rows |-> rows, cols |-> cols,
     occupied |-> [c \in {} |-> 0], pieces |-> <<>>]

ShapeCoords(shape, x0, y0, z) == {<<x0 + o[1], y0 + o[2], z>> : o \in shape}

\* the commit branch of _place_random
CommitPiece(board, ptype, coords) ==
    LET piece == [piece_type |-> ptype, coords |-> coords, hits |-> {}]
        idx   == Len(board.pieces) + 1
    IN  [board EXCEPT
           !.occupied = [c \in (DOMAIN board.occupied) \cup coords |->
                            IF c \in coords THEN idx ELSE board.occupied[c]],
           !.pieces = Append(board.pieces, piece)]

\* the coordinate sets one attempt of _place_random can draw; a shape whose
\* bounding box leaves an empty range makes random.randrange raise instead
ShapeFits(board, shape) ==
    /\ board.cols - SetMax({o[1] : o \in shape}) > 0
    /\ board.rows - SetMax({o[2] : o \in shape}) > 0

\* the General given the layer of its type, like the other vessels
Layers_TypeLayer(board, ptype) == {PieceValue(ptype) - 1}

Layers(board, ptype) ==
    IF ptype = "GENERAL" THEN 0..(board.depth - 1) ELSE {PieceValue(ptype) - 1}

Candidates(board, ptype) ==
    LET shapes == SHAPES_2D(ptype)
    IN  UNION { IF ShapeFits(board, shapes[i])
                THEN { ShapeCoords(shapes[i], x0, y0, z) :
                         x0 \in 0..(board.cols - SetMax({o[1] : o \in shapes[i]}) - 1),
                         y0 \in 0..(board.rows - SetMax({o[2] : o \in shapes[i]}) - 1),
                         z \in Layers(board, ptype) }
                ELSE {} : i \in 1..Len(shapes) }

\* the overlap test left out
Collides_Never(board, coords) == FALSE

\* the overlap test of _place_random
Collides(board, coords) == \E c \in coords : c \in DOMAIN board.occupied

\* Board3D._place_random: every outcome the random draws can produce
place_random(board, ptype) ==
    LET shapes == SHAPES_2D(ptype)
        cands  == Candidates(board, ptype)
    IN  { [board |-> CommitPiece(board, ptype, coords), err |-> "none"] :
             coords \in {cc \in cands : ~Collides(board, cc)} }
        \cup (IF \E cc \in cands : Collides(board, cc)
              THEN {[board |-> board, err |-> "PlacementExhausted"]} ELSE {})
        \cup (IF \E i \in 1..Len(shapes) : ~ShapeFits(board, shapes[i])
              THEN {[board |-> board, err |-> "EmptyRange"]} ELSE {})

\* counts is the dict in insertion order: a sequence of <<ptype, num>>
CountsGet(counts, ptype, default) ==
    IF \E i \in 1..Len(counts) : counts[i][1] = ptype
    THEN counts[CHOOSE i \in 1..Len(counts) : counts[i][1] = ptype][2]
    ELSE default

MaxCount(board, ptype) ==
    LET base_shape == SHAPES_2D(ptype)[1]
        xs == {o[1] : o \in base_shape}
        ys == {o[2] : o \in base_shape}
        width  == SetMax(xs) - SetMin(xs) + 1
        height == SetMax(ys) - SetMin(ys) + 1
        cap_horiz == (board.rows \div height) * (board.cols \div width)
        cap_vert  == (board.rows \div width) * (board.cols \div height)
    IN  IF cap_horiz >= cap_vert THEN cap_horiz ELSE cap_vert

RECURSIVE Repeat(_, _)
Repeat(x, n) == IF n <= 0 THEN <<>> ELSE <<x>> \o Repeat(x, n - 1)

\* one _place_random call per type of the dict, whatever its count
PlaceOrder_OnePerType(counts) == [i \in 1..Len(counts) |-> counts[i][1]]

\* the placement loops of place_all, flattened: one entry per _place_random call
RECURSIVE PlaceOrder(_)
PlaceOrder(counts) ==
    IF counts = <<>> THEN <<>>
    ELSE Repeat(Head(counts)[1], Head(counts)[2]) \o PlaceOrder(Tail(counts))

RECURSIVE PlaceSeq(_, _)
PlaceSeq(board, todo) ==
    IF todo = <<>> THEN {[board |-> board, err |-> "none"]}
    ELSE UNION { IF o.err = "none" THEN PlaceSeq(o.board, Tail(todo)) ELSE {o} :
                   o \in place_random(board, Head(todo)) }

\* place_all testing the capacities before the number of Generals
place_all_CapacityFirst(board, counts) ==
    IF \E i \in 1..Len(counts) :
          counts[i][1] # "GENERAL" /\ counts[i][2] > MaxCount(board, counts[i][1])
    THEN {[board |-> board, err |-> "CapacityExceeded"]}
    ELSE IF CountsGet(counts, "GENERAL", 0) # 1
         THEN {[board |-> board, err |-> "InvalidConfiguration"]}
         ELSE PlaceSeq(board, PlaceOrder(counts))

\* place_all with one loop: each type is checked and then placed at once
RECURSIVE PlaceChecked(_, _)
PlaceChecked(board, counts) ==
    IF counts = <<>> THEN {[board |-> board, err |-> "none"]}
    ELSE IF Head(counts)[1] # "GENERAL"
              /\ Head(counts)[2] > MaxCount(board, Head(counts)[1])
         THEN {[board |-> board, err |-> "CapacityExceeded"]}
         ELSE UNION { IF o.err = "none" THEN PlaceChecked(o.board, Tail(counts)) ELSE {o} :
                        o \in PlaceSeq(board, Repeat(Head(counts)[1], Head(counts)[2])) }

place_all_Interleaved(board, counts) ==
    IF CountsGet(counts, "GENERAL", 0) # 1
    THEN {[board |-> board, err |-> "InvalidConfiguration"]}
    ELSE PlaceChecked(board, counts)

\* Board3D.place_all: every outcome (resulting board, error raised or "none")
place_all(board, counts) ==
    IF CountsGet(counts, "GENERAL", 0) # 1
    THEN {[board |-> board, err |-> "InvalidConfiguration"]}
    ELSE IF \E i \in 1..Len(counts) :
               counts[i][1] # "GENERAL" /\ counts[i][2] > MaxCount(board, counts[i][1])
         THEN {[board |-> board, err |-> "CapacityExceeded"]}
         ELSE PlaceSeq(board, PlaceOrder(counts))

\* Board3D.receive_fire: the board after the call and the Signal returned
receive_fire(board, coord) ==
    IF coord \notin DOMAIN board.occupied
    THEN [board |-> board, sig |-> "MISS"]
    ELSE LET idx == board.occupied[coord]
             r   == register_hit(board.pieces[idx], coord)
         IN  [board |-> [board EXCEPT !.pieces[idx] = r.piece], sig |-> r.sig]

all_non_general_sunk(board) ==
    \A i \in 1..Len(board.pieces) :
        \/ board.pieces[i].piece_type = "GENERAL"
        \/ board.pieces[i].hits = board.pieces[i].coords

(***************************************************************************)
(* Configurations: board dimensions and the counts dict, in insertion      *)
(* order, that the constructors are called with.                           *)
(***************************************************************************)
Config(depth, rows, cols, counts) ==
    [depth |-> depth, rows |-> rows, cols |-> cols, counts |-> counts]

\* placement only (test.py places one piece per type on three layers)
PlaceConfigs ==
    { Config(3, 3, 4, <<<<"SUBMARINE", 1>>, <<"DESTROYER", 1>>, <<"JET", 1>>, <<"GENERAL", 1>>>>),
      Config(3, 3, 4, <<<<"GENERAL", 1>>, <<"DESTROYER", 2>>, <<"SUBMARINE", 0>>>>),
      Config(3, 4, 3, <<<<"SUBMARINE", 2>>, <<"GENERAL", 1>>>>),
      \* not exactly one General: absent, 0, 2, 3
      Config(3, 3, 4, <<<<"DESTROYER", 1>>>>),
      Config(3, 3, 4, <<<<"GENERAL", 0>>, <<"SUBMARINE", 1>>>>),
      Config(3, 3, 4, <<<<"GENERAL", 2>>, <<"DESTROYER", 10>>>>),
      Config(3, 4, 4, <<<<"SUBMARINE", 1>>, <<"GENERAL", 3>>>>),
      \* counts at and above the capacity of a layer
      Config(3, 5, 5, <<<<"DESTROYER", 10>>, <<"GENERAL", 1>>>>),
      Config(3, 3, 4, <<<<"SUBMARINE", 1>>, <<"GENERAL", 1>>, <<"DESTROYER", 4>>>>),
      Config(3, 3, 4, <<<<"JET", 2>>, <<"GENERAL", 1>>>>),
      Config(3, 3, 4, <<<<"GENERAL", 1>>, <<"DESTROYER", 3>>>>),
      Config(3, 4, 4, <<<<"SUBMARINE", 5>>, <<"GENERAL", 1>>>>),
      \* fewer than three layers
      Config(1, 1, 4, <<<<"DESTROYER", 1>>, <<"GENERAL", 1>>>>),
      Config(2, 3, 4, <<<<"GENERAL", 1>>, <<"JET", 1>>>>),
      Config(1, 3, 4, <<<<"SUBMARINE", 1>>, <<"GENERAL", 1>>>>) }

\* placement followed by direct receive_fire / register_hit calls
BoardConfigs ==
    { Config(2, 1, 4, <<<<"DESTROYER", 1>>, <<"GENERAL", 1>>>>),
      Config(2, 1, 5, <<<<"GENERAL", 1>>, <<"DESTROYER", 1>>>>),
      Config(2, 1, 4, <<<<"SUBMARINE", 1>>, <<"DESTROYER", 1>>, <<"GENERAL", 1>>>>) }

\* a single Piece of any type, as _place_random builds it on a 3x4x3 board
PieceConfigs == { Config(3, 3, 4, <<<<ptype, 1>>>>) : ptype \in PieceType }

\* a match between two boards
GameConfigs ==
    { Config(2, 1, 4, <<<<"SUBMARINE", 1>>, <<"DESTROYER", 1>>, <<"GENERAL", 1>>>>),
      Config(2, 1, 4, <<<<"DESTROYER", 1>>, <<"GENERAL", 1>>>>),
      Config(1, 1, 4, <<<<"SUBMARINE", 1>>, <<"GENERAL", 1>>>>) }

NoCoord == <<0 - 1, 0 - 1, 0 - 1>>
NoView == {}
\* no shape-library call has been made
NoResult == [op |-> "none", value |-> {}]

InBounds(board) ==
    {<<x, y, z>> : x \in 0..(board.cols - 1), y \in 0..(board.rows - 1),
                   z \in 0..(board.depth - 1)}

Last(op, player, coord, sig, piece) ==
    [op |-> op, player |-> player, coord |-> coord, sig |-> sig, piece |-> piece]

(***************************************************************************)
(* Board3D and Piece used directly, as test.py does                        *)
(***************************************************************************)
InitBoardWith(configs) ==
    /\ cfg \in configs
    /\ boards = [p \in {0} |-> NewBoard(cfg.depth, cfg.rows, cfg.cols)]
    /\ shots = [p \in {0} |-> {}]
    /\ current = 0
    /\ status = "NEW"
    /\ winner = 0 - 1
    /\ err = "none"
    /\ last = Last("init", 0, NoCoord, "NONE", 0)
    /\ told = [p \in {0} |-> NoView]
    /\ view = NoView
    /\ arg = {}
    /\ result = NoResult

InitPlace == InitBoardWith(PlaceConfigs)
InitBoard == InitBoardWith(BoardConfigs)

\* Piece(ptype, coords, set()) with coords drawn as _place_random draws them
InitPiece ==
    /\ cfg \in PieceConfigs
    /\ \E coords \in Candidates(NewBoard(cfg.depth, cfg.rows, cfg.cols), cfg.counts[1][1]) :
         boards = [p \in {0} |->
                     CommitPiece(NewBoard(cfg.depth, cfg.rows, cfg.cols), cfg.counts[1][1], coords)]
    /\ shots = [p \in {0} |-> {}]
    /\ current = 0
    /\ status = "PLACED"
    /\ winner = 0 - 1
    /\ err = "none"
    /\ last = Last("init", 0, NoCoord, "NONE", 0)
    /\ told = [p \in {0} |-> NoView]
    /\ view = NoView
    /\ arg = {}
    /\ result = NoResult

PlaceAll ==
    /\ status = "NEW"
    /\ \E out \in place_all(boards[0], cfg.counts) :
         /\ boards' = [boards EXCEPT ![0] = out.board]
         /\ err' = out.err
         /\ status' = IF out.err = "none" THEN "PLACED" ELSE "FAILED"
    /\ last' = Last("place_all", 0, NoCoord, "NONE", 0)
    /\ UNCHANGED <<arg, result, cfg, shots, current, winner, told, view>>

\* the coordinates fired at: every in-bounds cell and every occupied cell
Targets(board) == InBounds(board) \cup DOMAIN board.occupied

ReceiveFire(coord) ==
    /\ status = "PLACED"
    /\ LET r == receive_fire(boards[0], coord)
       IN  /\ boards' = [boards EXCEPT ![0] = r.board]
           /\ last' = Last("receive_fire", 0, coord, r.sig,
                           IF coord \in DOMAIN boards[0].occupied
                           THEN boards[0].occupied[coord] ELSE 0)
    /\ UNCHANGED <<arg, result, cfg, shots, current, status, winner, err, told, view>>

RegisterHit(i, coord) ==
    /\ status = "PLACED"
    /\ i \in 1..Len(boards[0].pieces)
    /\ LET r == register_hit(boards[0].pieces[i], coord)
       IN  /\ boards' = [boards EXCEPT ![0].pieces[i] = r.piece]
           /\ last' = Last("register_hit", 0, coord, r.sig, i)
    /\ UNCHANGED <<arg, result, cfg, shots, current, status, winner, err, told, view>>

NextPlace == PlaceAll

NextBoard ==
    \/ PlaceAll
    \/ \E coord \in Targets(boards[0]) : ReceiveFire(coord)
    \/ \E i \in 1..Len(boards[0].pieces), coord \in Targets(boards[0]) : RegisterHit(i, coord)

NextPiece == \E coord \in Targets(boards[0]) : RegisterHit(1, coord)

SpecPlace == InitPlace /\ [][NextPlace]_vars
SpecBoard == InitBoard /\ [][NextBoard]_vars
SpecPiece == InitPiece /\ [][NextPiece]_vars

(***************************************************************************)
(* The helper functions called on their own, as in src/test.py             *)
(***************************************************************************)
\* offsets are drawn from this square around the origin
OffsetGrid == ((0 - 1)..2) \X ((0 - 1)..2)

\* the argument lists: every set of 1..MaxCells offsets of the square, and
\* the JET base offsets of _SHAPES_2D
ShapeInputs ==
    {S \in SUBSET OffsetGrid : Cardinality(S) \in 1..MaxCells}
    \cup {{<<0-1,0>>, <<0,0>>, <<1,0>>, <<0,0-1>>, <<0,1>>, <<0,2>>}}

InitShape ==
    /\ arg \in ShapeInputs
    /\ result = NoResult
    /\ cfg = Config(0, 0, 0, <<>>)
    /\ boards = [p \in {0} |-> NewBoard(0, 0, 0)]
    /\ shots = [p \in {0} |-> {}]
    /\ current = 0
    /\ status = "NEW"
    /\ winner = 0 - 1
    /\ err = "none"
    /\ last = Last("init", 0, NoCoord, "NONE", 0)
    /\ told = [p \in {0} |-> NoView]
    /\ view = NoView

Normalize ==
    /\ result' = [op |-> "normalize", value |-> normalize(arg)]
    /\ UNCHANGED <<arg, cfg, boards, shots, current, status, winner, err, last, told, view>>

GetRotations ==
    /\ result' = [op |-> "get_rotations", value |-> get_rotations(arg)]
    /\ UNCHANGED <<arg, cfg, boards, shots, current, status, winner, err, last, told, view>>

NextShape == Normalize \/ GetRotations

SpecShape == InitShape /\ [][NextShape]_vars

(***************************************************************************)
(* Game                                                                    *)
(***************************************************************************)
\* the z, y, x loops of _print_view
ViewOrder(board) ==
    [k \in 1..(board.depth * board.rows * board.cols) |->
        <<(k - 1) % board.cols,
          ((k - 1) \div board.cols) % board.rows,
          (k - 1) \div (board.cols * board.rows)>>]

\* the cells of the grid that take the "coord in self.shots" branch, in loop order
FiredInOrder(board, fired) ==
    LET InFired(coord) == coord \in fired
    IN  SelectSeq(ViewOrder(board), InFired)

RECURSIVE ViewLoop(_, _, _, _)
ViewLoop(board, order, k, acc) ==
    IF k > Len(order) THEN [board |-> board, view |-> acc]
    ELSE LET r == receive_fire(board, order[k])
         IN  ViewLoop(r.board, order, k + 1, acc \cup {<<order[k], r.sig>>})

\* _print_view without the "coord in self.shots" test: every cell re-queried
print_view_QueryAll(bs, sh, cur) == ViewLoop(bs[1 - cur], ViewOrder(bs[0]), 1, {})

\* Game._print_view: the opponent board after the re-queries, and the signal
\* rendered for each fired coordinate, as <<coord, signal>> pairs
print_view(bs, sh, cur) == ViewLoop(bs[1 - cur], FiredInOrder(bs[0], sh[cur]), 1, {})

\* Game.start: the "already fired" test
AlreadyFired_Never(sh, cur, coord) == FALSE

AlreadyFired(sh, cur, coord) == coord \in sh[cur]

\* Game.start: who fires next, given the signal of the fire just resolved
NextPlayer_FlipOnHit(cur, sig) == IF sig \in {"MISS", "HIT"} THEN 1 - cur ELSE cur

NextPlayer(cur, sig) == IF sig = "MISS" THEN 1 - cur ELSE cur

\* Game.start: the two win checks made after a fire that was not a MISS;
\* piece is the reference captured before firing (0 when the cell is empty)
WinDetected_SunkOnly(target_board, piece, sig) ==
    sig # "MISS" /\ all_non_general_sunk(target_board)

WinDetected(target_board, piece, sig) ==
    /\ sig # "MISS"
    /\ \/ (piece # 0 /\ target_board.pieces[piece].piece_type = "GENERAL")
       \/ all_non_general_sunk(target_board)

\* fire with one shots set shared by both players
fire_SharedShots(bs, sh, cur, coord) ==
    IF AlreadyFired(sh, cur, coord)
    THEN [boards |-> bs, shots |-> sh, current |-> cur, ended |-> FALSE,
          resolved |-> FALSE, sig |-> "NONE", piece |-> 0]
    ELSE LET target_board == bs[1 - cur]
             piece == IF coord \in DOMAIN target_board.occupied
                      THEN target_board.occupied[coord] ELSE 0
             r == receive_fire(target_board, coord)
         IN  [boards |-> [bs EXCEPT ![1 - cur] = r.board],
              shots |-> [q \in {0, 1} |-> sh[q] \cup {coord}],
              current |-> NextPlayer(cur, r.sig),
              ended |-> WinDetected(r.board, piece, r.sig),
              resolved |-> TRUE, sig |-> r.sig, piece |-> piece]

\* fire resolved against the firing player's own board
fire_WrongBoard(bs, sh, cur, coord) ==
    IF AlreadyFired(sh, cur, coord)
    THEN [boards |-> bs, shots |-> sh, current |-> cur, ended |-> FALSE,
          resolved |-> FALSE, sig |-> "NONE", piece |-> 0]
    ELSE LET target_board == bs[cur]
             piece == IF coord \in DOMAIN target_board.occupied
                      THEN target_board.occupied[coord] ELSE 0
             r == receive_fire(target_board, coord)
         IN  [boards |-> [bs EXCEPT ![cur] = r.board],
              shots |-> [sh EXCEPT ![cur] = sh[cur] \cup {coord}],
              current |-> NextPlayer(cur, r.sig),
              ended |-> WinDetected(r.board, piece, r.sig),
              resolved |-> TRUE, sig |-> r.sig, piece |-> piece]

\* Game.start, the part of one loop iteration that resolves a parsed coordinate
fire(bs, sh, cur, coord) ==
    IF AlreadyFired(sh, cur, coord)
    THEN [boards |-> bs, shots |-> sh, current |-> cur, ended |-> FALSE,
          resolved |-> FALSE, sig |-> "NONE", piece |-> 0]
    ELSE LET target_board == bs[1 - cur]
             piece == IF coord \in DOMAIN target_board.occupied
                      THEN target_board.occupied[coord] ELSE 0
             r == receive_fire(target_board, coord)
         IN  [boards |-> [bs EXCEPT ![1 - cur] = r.board],
              shots |-> [sh EXCEPT ![cur] = sh[cur] \cup {coord}],
              current |-> NextPlayer(cur, r.sig),
              ended |-> WinDetected(r.board, piece, r.sig),
              resolved |-> TRUE, sig |-> r.sig, piece |-> piece]

\* Game.__init__
InitGame ==
    /\ cfg \in GameConfigs
    /\ boards \in [{0, 1} -> {o.board : o \in {q \in place_all(NewBoard(cfg.depth, cfg.rows, cfg.cols),
                                                              cfg.counts) : q.err = "none"}}]
    /\ shots = [p \in {0, 1} |-> {}]
    /\ current = 0
    /\ status = "IN_PROGRESS"
    /\ winner = 0 - 1
    /\ err = "none"
    /\ last = Last("init", 0, NoCoord, "NONE", 0)
    /\ told = [p \in {0, 1} |-> NoView]
    /\ view = NoView
    /\ arg = {}
    /\ result = NoResult

ShotsFired == Cardinality(shots[0]) + Cardinality(shots[1])

\* one iteration of the loop of Game.start reading "z,y,x"
LoopFire(coord) ==
    /\ status = "IN_PROGRESS"
    /\ coord \in shots[current] \/ ShotsFired < MaxShots
    /\ \E v \in {print_view(boards, shots, current)} :
       \E f \in {fire([boards EXCEPT ![1 - current] = v.board], shots, current, coord)} :
           /\ view' = v.view
           /\ boards' = f.boards
           /\ shots' = f.shots
           /\ current' = f.current
           /\ status' = IF f.ended THEN "ENDED" ELSE status
           /\ winner' = IF f.ended THEN current ELSE winner
           /\ told' = IF f.resolved
                      THEN [told EXCEPT ![current] = told[current] \cup {<<coord, f.sig>>}]
                      ELSE told
           /\ last' = Last(IF f.resolved THEN "fire" ELSE "dup", current, coord, f.sig, f.piece)
    /\ UNCHANGED <<arg, result, cfg, err>>

\* one iteration reading 'show', or a line that does not parse
LoopNoFire(op) ==
    /\ status = "IN_PROGRESS"
    /\ \E v \in {print_view(boards, shots, current)} :
           /\ view' = v.view
           /\ boards' = [boards EXCEPT ![1 - current] = v.board]
    /\ last' = Last(op, current, NoCoord, "NONE", 0)
    /\ UNCHANGED <<arg, result, cfg, shots, current, status, winner, err, told>>

\* one iteration reading 'quit'
LoopQuit ==
    /\ status = "IN_PROGRESS"
    /\ \E v \in {print_view(boards, shots, current)} :
           /\ view' = v.view
           /\ boards' = [boards EXCEPT ![1 - current] = v.board]
    /\ status' = "ABORTED"
    /\ last' = Last("quit", current, NoCoord, "NONE", 0)
    /\ UNCHANGED <<arg, result, cfg, shots, current, winner, err, told>>

Next ==
    \/ \E coord \in InBounds(boards[0]) : LoopFire(coord)
    \/ \E op \in {"show", "invalid"} : LoopNoFire(op)
    \/ LoopQuit

Init == InitGame

\* matches in which every line read is a coordinate of the grid that the
\* current player has not fired at
FreshConfigs ==
    { Config(1, 1, 4, <<<<"DESTROYER", 1>>, <<"GENERAL", 1>>>>),
      Config(1, 1, 4, <<<<"SUBMARINE", 1>>, <<"GENERAL", 1>>>>),
      Config(2, 1, 3, <<<<"SUBMARINE", 1>>, <<"GENERAL", 1>>>>),
      Config(1, 2, 2, <<<<"GENERAL", 1>>>>) }

InitFresh ==
    /\ cfg \in FreshConfigs
    /\ boards \in [{0, 1} -> {o.board : o \in {q \in place_all(NewBoard(cfg.depth, cfg.rows, cfg.cols),
                                                              cfg.counts) : q.err = "none"}}]
    /\ shots = [p \in {0, 1} |-> {}]
    /\ current = 0
    /\ status = "IN_PROGRESS"
    /\ winner = 0 - 1
    /\ err = "none"
    /\ last = Last("init", 0, NoCoord, "NONE", 0)
    /\ told = [p \in {0, 1} |-> NoView]
    /\ view = NoView
    /\ arg = {}
    /\ result = NoResult

\* one iteration of the loop reading a coordinate not yet in shots[current]
LoopFreshFire(coord) ==
    /\ status = "IN_PROGRESS"
    /\ coord \notin shots[current]
    /\ \E v \in {print_view(boards, shots, current)} :
       \E f \in {fire([boards EXCEPT ![1 - current] = v.board], shots, current, coord)} :
           /\ view' = v.view
           /\ boards' = f.boards
           /\ shots' = f.shots
           /\ current' = f.current
           /\ status' = IF f.ended THEN "ENDED" ELSE status
           /\ winner' = IF f.ended THEN current ELSE winner
           /\ told' = [told EXCEPT ![current] = told[current] \cup {<<coord, f.sig>>}]
           /\ last' = Last("fire", current, coord, f.sig, f.piece)
    /\ UNCHANGED <<arg, result, cfg, err>>

NextFresh == \E coord \in InBounds(boards[0]) : LoopFreshFire(coord)

\* the input the loop blocks on: a coordinate of the grid that the current
\* player has not fired at is entered and recorded
FreshInput ==
    /\ status = "IN_PROGRESS"
    /\ \E coord \in InBounds(boards[0]) \ shots[current] :
           shots' = [shots EXCEPT ![current] = shots[current] \cup {coord}]

\* as long as the match runs and a coordinate is left to the current player,
\* the next line arrives and is such a coordinate
SpecFresh == InitFresh /\ [][NextFresh]_vars /\ WF_shots(FreshInput)
Spec == Init /\ [][Next]_vars

(***************************************************************************)
(* Properties of the match (Spec)                                          *)
(***************************************************************************)
\* the step just taken resolved a fire at a coordinate that was not yet fired
FreshFire == last'.op = "fire" /\ last'.coord \notin shots[current]

PieceTypeAt(board, coord) ==
    IF coord \in DOMAIN board.occupied
    THEN board.pieces[board.occupied[coord]].piece_type ELSE "NONE"

\* C1: the match starts with player 0; a fire of a fresh coordinate that is
\* resolved as MISS passes the turn to the other player, one resolved as HIT
\* leaves the turn and the match in progress; the turn index changes on
\* nothing but a MISS and is always 0 or 1.
C1_TurnRule ==
    /\ current = 0
    /\ [][ /\ current \in {0, 1} /\ current' \in {0, 1}
           /\ (FreshFire /\ last'.sig = "MISS") => current' = 1 - current
           /\ (FreshFire /\ last'.sig = "HIT") =>
                 (current' = current /\ status' = "IN_PROGRESS")
           /\ current' # current => (FreshFire /\ last'.sig = "MISS") ]_vars

\* player 1 got the turn by a MISS of player 0 and kept it on a HIT
C1_Witness ==
    /\ last.op = "fire" /\ last.sig = "HIT" /\ last.player = 1
    /\ current = 1 /\ status = "IN_PROGRESS"
    /\ \E p \in told[0] : p[2] = "MISS"

\* C2: a fire at the cell of the opponent's GENERAL ends the match at once
\* with the firing player as winner, whatever else has been hit; the match
\* never ends on a MISS and the winner is always the player who fired.
C2_GeneralEndsMatch ==
    [][ /\ (status = "IN_PROGRESS" /\ last'.op \in {"fire", "dup"}
              /\ PieceTypeAt(boards[1 - current], last'.coord) = "GENERAL")
           => (status' = "ENDED" /\ winner' = current)
        /\ (status' = "ENDED" /\ status # "ENDED")
           => (FreshFire /\ last'.sig # "MISS" /\ winner' = current
                 /\ winner' = last'.player) ]_vars

\* player 1 wins by the GENERAL while a DESTROYER of player 0 is half hit
C2_Witness ==
    /\ status = "ENDED" /\ winner = 1 /\ last.player = 1
    /\ PieceTypeAt(boards[0], last.coord) = "GENERAL"
    /\ \E i \in 1..Len(boards[0].pieces) :
         /\ boards[0].pieces[i].piece_type = "DESTROYER"
         /\ boards[0].pieces[i].hits # {}
         /\ boards[0].pieces[i].hits # boards[0].pieces[i].coords

\* destroyed, as the data model defines it
Destroyed(piece) ==
    \/ piece.hits = piece.coords
    \/ (piece.piece_type \in {"SUBMARINE", "JET", "GENERAL"} /\ piece.hits # {})

AllNonCommandDestroyed(board) ==
    \A i \in 1..Len(board.pieces) :
        board.pieces[i].piece_type = "GENERAL" \/ Destroyed(board.pieces[i])

\* C3: the fire that destroys the last non-command vessel of the opponent
\* ends the match with the firing player as winner.
C3_AllDestroyedEndsMatch ==
    (/\ last.op = "fire"
     /\ PieceTypeAt(boards[1 - last.player], last.coord) \notin {"GENERAL", "NONE"}
     /\ AllNonCommandDestroyed(boards[1 - last.player]))
    => (status = "ENDED" /\ winner = last.player)

\* C9: a fire at a coordinate already in the current player's fired-set
\* changes neither fired-set, no vessel, not the turn, not the status, and
\* resolves nothing (no signal is produced or reported).
C9_DuplicateShotNoChange ==
    [][ (status = "IN_PROGRESS" /\ last'.op \in {"fire", "dup"}
           /\ last'.coord \in shots[current])
        => (/\ last'.op = "dup" /\ last'.sig = "NONE"
            /\ shots' = shots /\ boards' = boards /\ current' = current
            /\ status' = status /\ winner' = winner /\ told' = told) ]_vars

\* a re-fire at a cell of a half-hit DESTROYER
C9_Witness ==
    /\ last.op = "dup" /\ status = "IN_PROGRESS"
    /\ last.coord \in shots[current]
    /\ PieceTypeAt(boards[1 - current], last.coord) = "DESTROYER"

\* C10 as stated: the view replays, for each fired coordinate, the signal the
\* player was told when firing it.
C10_ReplayEqualsTold == \A p \in view : p \in told[last.player]

SunkAt(board, coord) ==
    /\ coord \in DOMAIN board.occupied
    /\ board.pieces[board.occupied[coord]].hits = board.pieces[board.occupied[coord]].coords

\* C10 amended: the view holds one signal for every fired coordinate; it is
\* the signal told at the fire when that was MISS or KILL, and for a fire that
\* was told HIT it is HIT while the vessel has an un-hit cell, KILL afterwards.
C10_ReplayAmended ==
    [][ status = "IN_PROGRESS" =>
          /\ {p[1] : p \in view'} = shots[current]
          /\ \A p \in view' : \E t \in told[current] :
               /\ t[1] = p[1]
               /\ t[2] \in {"MISS", "KILL"} => p[2] = t[2]
               /\ t[2] = "HIT" =>
                    p[2] = (IF SunkAt(boards[1 - current], p[1]) THEN "KILL" ELSE "HIT") ]_vars

\* a cell told HIT is replayed as KILL
C10_Witness ==
    \E p \in view : p[2] = "KILL" /\ <<p[1], "HIT">> \in told[last.player]

(***************************************************************************)
(* Properties of Piece and Board3D (SpecBoard, SpecPiece, SpecPlace)       *)
(***************************************************************************)
HitCall == last'.op \in {"receive_fire", "register_hit"} /\ last'.piece # 0

\* C4: a DESTROYER hit on a cell not hit before answers HIT while that leaves
\* a cell un-hit (hits 1 to 3) and KILL on its last remaining cell (hit 4),
\* in whatever order the cells are fired at.
C4_DestroyerHitThenKill ==
    [][ (/\ HitCall
         /\ boards[0].pieces[last'.piece].piece_type = "DESTROYER"
         /\ last'.coord \in boards[0].pieces[last'.piece].coords
         /\ last'.coord \notin boards[0].pieces[last'.piece].hits)
        => last'.sig = (IF Cardinality(boards[0].pieces[last'.piece].hits) = 3
                        THEN "KILL" ELSE "HIT") ]_vars

\* the fourth cell of a DESTROYER has just been fired at
C4_Witness ==
    /\ last.op = "receive_fire" /\ last.piece # 0 /\ last.sig = "KILL"
    /\ boards[0].pieces[last.piece].piece_type = "DESTROYER"
    /\ Cardinality(boards[0].pieces[last.piece].hits) = 4

\* C5: register_hit of a SUBMARINE, JET or GENERAL never answers HIT, and
\* answers KILL for each of its cells, on the first hit and on every later one.
C5_SingleHitKill ==
    (last.op = "register_hit"
       /\ boards[0].pieces[1].piece_type \in {"SUBMARINE", "JET", "GENERAL"})
    => (/\ last.sig # "HIT"
        /\ last.coord \in boards[0].pieces[1].coords => last.sig = "KILL")

\* a JET answering KILL on a later hit
C5_Witness ==
    /\ last.op = "register_hit" /\ last.sig = "KILL"
    /\ boards[0].pieces[1].piece_type = "JET"
    /\ Cardinality(boards[0].pieces[1].hits) >= 3

\* C6: hits is a subset of coords in every state, no call removes a hit, and
\* a call with a coordinate that is not a cell of the piece (register_hit) or
\* of any piece (receive_fire) answers MISS and changes nothing.
C6_HitsWithinCoords ==
    /\ [](\A i \in 1..Len(boards[0].pieces) :
            boards[0].pieces[i].hits \subseteq boards[0].pieces[i].coords)
    /\ [][ /\ \A i \in 1..Len(boards[0].pieces) :
                /\ boards[0].pieces[i].hits \subseteq boards'[0].pieces[i].hits
                /\ boards'[0].pieces[i].coords = boards[0].pieces[i].coords
           /\ (last'.op = "register_hit"
                 /\ last'.coord \notin boards[0].pieces[last'.piece].coords)
              => (last'.sig = "MISS" /\ boards' = boards)
           /\ (last'.op = "receive_fire"
                 /\ \A i \in 1..Len(boards[0].pieces) :
                       last'.coord \notin boards[0].pieces[i].coords)
              => (last'.sig = "MISS" /\ boards' = boards) ]_vars

\* register_hit with a foreign coordinate on a board that already has hits
C6_Witness ==
    /\ last.op = "register_hit" /\ last.sig = "MISS"
    /\ last.coord \notin boards[0].pieces[last.piece].coords
    /\ \E i \in 1..Len(boards[0].pieces) : boards[0].pieces[i].hits # {}

ShapeSize(ptype) ==
    CASE ptype = "SUBMARINE" -> 3
      [] ptype = "DESTROYER" -> 4
      [] ptype = "JET"       -> 6
      [] ptype = "GENERAL"   -> 1

\* C7: after a successful place_all no two vessels share a coordinate, the
\* keys of the coordinate index are exactly the cells of the vessels, each
\* key maps to the vessel that contains it, and every vessel has the number
\* of cells of its type (3, 4, 6, 1).
C7_CollisionFree ==
    status = "PLACED" =>
      LET b == boards[0]
      IN  /\ \A i, j \in 1..Len(b.pieces) :
                i # j => b.pieces[i].coords \cap b.pieces[j].coords = {}
          /\ DOMAIN b.occupied = UNION {b.pieces[i].coords : i \in 1..Len(b.pieces)}
          /\ \A c \in DOMAIN b.occupied :
                b.occupied[c] \in 1..Len(b.pieces) /\ c \in b.pieces[b.occupied[c]].coords
          /\ \A i \in 1..Len(b.pieces) :
                Cardinality(b.pieces[i].coords) = ShapeSize(b.pieces[i].piece_type)

\* one vessel of each of the four types has been placed
C7_Witness ==
    /\ status = "PLACED" /\ last.op = "place_all"
    /\ \A ptype \in PieceType :
          \E i \in 1..Len(boards[0].pieces) : boards[0].pieces[i].piece_type = ptype

RECURSIVE SumCounts(_)
SumCounts(counts) ==
    IF counts = <<>> THEN 0 ELSE Head(counts)[2] + SumCounts(Tail(counts))

\* C8: after a successful place_all the board holds exactly counts[t]
\* vessels of each type t, sum(counts) vessels in all, one of them the GENERAL.
C8_CountsPlaced ==
    status = "PLACED" =>
      /\ \A ptype \in PieceType :
            Cardinality({i \in 1..Len(boards[0].pieces) :
                            boards[0].pieces[i].piece_type = ptype})
              = CountsGet(cfg.counts, ptype, 0)
      /\ Len(boards[0].pieces) = SumCounts(cfg.counts)
      /\ Cardinality({i \in 1..Len(boards[0].pieces) :
                         boards[0].pieces[i].piece_type = "GENERAL"}) = 1

\* two vessels of one type were asked for and placed
C8_Witness ==
    /\ status = "PLACED" /\ last.op = "place_all"
    /\ CountsGet(cfg.counts, "DESTROYER", 0) = 2
    /\ Len(boards[0].pieces) = 3

(***************************************************************************)
(* Properties of place_all's validation (SpecPlace)                        *)
(***************************************************************************)
\* the count the dict holds for a type, 0 when the type is absent
Requested(counts, ptype) ==
    LET S == {i \in 1..Len(counts) : counts[i][1] = ptype}
    IN  IF S = {} THEN 0 ELSE counts[CHOOSE i \in S : TRUE][2]

BoardEmpty(board) == DOMAIN board.occupied = {} /\ board.pieces = <<>>

\* C11: place_all with a General count other than 1 (absent, 0, 2 or more)
\* fails with InvalidConfiguration, also when a capacity is exceeded as well,
\* and leaves the coordinate index and the vessel list empty.
C11_InvalidConfiguration ==
    (status # "NEW" /\ Requested(cfg.counts, "GENERAL") # 1)
    => (/\ status = "FAILED" /\ err = "InvalidConfiguration"
        /\ BoardEmpty(boards[0]))

\* two Generals and ten DESTROYERs on 3x4: the General check comes first
C11_Witness ==
    /\ status = "FAILED" /\ err = "InvalidConfiguration"
    /\ Requested(cfg.counts, "GENERAL") = 2
    /\ Requested(cfg.counts, "DESTROYER") = 10

\* width and height of the bounding box of a type's base shape
BBoxW(ptype) == CASE ptype = "SUBMARINE" -> 3 [] ptype = "DESTROYER" -> 4
                  [] ptype = "JET" -> 3 [] ptype = "GENERAL" -> 1
BBoxH(ptype) == CASE ptype = "SUBMARINE" -> 1 [] ptype = "DESTROYER" -> 1
                  [] ptype = "JET" -> 4 [] ptype = "GENERAL" -> 1

Larger(a, b) == IF a >= b THEN a ELSE b

LayerCapacity(rows, cols, ptype) ==
    Larger((rows \div BBoxH(ptype)) * (cols \div BBoxW(ptype)),
           (rows \div BBoxW(ptype)) * (cols \div BBoxH(ptype)))

OverCapacity(c) ==
    \E i \in 1..Len(c.counts) :
        /\ c.counts[i][1] # "GENERAL"
        /\ c.counts[i][2] > LayerCapacity(c.rows, c.cols, c.counts[i][1])

\* C12 as stated: place_all fails with CapacityExceeded exactly when some
\* non-command count exceeds the layer capacity, and the board is then empty.
C12_CapacityExactly ==
    status # "NEW" =>
      /\ (err = "CapacityExceeded") <=> OverCapacity(cfg)
      /\ err = "CapacityExceeded" => BoardEmpty(boards[0])

\* C12 amended: when exactly one General is requested, place_all fails with
\* CapacityExceeded exactly when some non-command count exceeds the layer
\* capacity, and the board is then empty, whatever the order of the types.
C12_CapacityAfterGeneral ==
    (status # "NEW" /\ Requested(cfg.counts, "GENERAL") = 1) =>
      /\ (err = "CapacityExceeded") <=> OverCapacity(cfg)
      /\ err = "CapacityExceeded" => BoardEmpty(boards[0])

\* the offending type is the last of the dict, after types within capacity
C12_Witness ==
    /\ status = "FAILED" /\ err = "CapacityExceeded" /\ BoardEmpty(boards[0])
    /\ cfg.counts[Len(cfg.counts)][1] = "DESTROYER"
    /\ cfg.counts[1] = <<"SUBMARINE", 1>>

\* the floor main() puts on the board dimensions
FloorMet(c) ==
    /\ (IF c.rows <= c.cols THEN c.rows ELSE c.cols) >= 3
    /\ Larger(c.rows, c.cols) >= 4

PassesValidation(c) == Requested(c.counts, "GENERAL") = 1 /\ ~OverCapacity(c)

\* C13: on a board meeting the floor (min(rows, cols) >= 3, max >= 4) and for
\* counts that pass validation, placement ends in one of two ways only: every
\* vessel committed, or PlacementExhausted; no other error is raised.
C13_OnlyCommitOrExhausted ==
    (status # "NEW" /\ FloorMet(cfg) /\ PassesValidation(cfg))
    => err \in {"none", "PlacementExhausted"}

\* C14: for any positive layer count, every coordinate occupied after a
\* successful place_all lies inside the board (0 <= x < cols, 0 <= y < rows,
\* 0 <= z < depth), and all cells of one vessel share the same z.
C14_OccupiedInsideBoard ==
    (status = "PLACED" /\ cfg.depth >= 1)
    => /\ \A c \in DOMAIN boards[0].occupied :
             /\ c[1] \in 0..(cfg.cols - 1)
             /\ c[2] \in 0..(cfg.rows - 1)
             /\ c[3] \in 0..(cfg.depth - 1)
       /\ \A i \in 1..Len(boards[0].pieces) :
             \A c, d \in boards[0].pieces[i].coords : c[3] = d[3]

\* n vessels of one type, in any mix of its rotation variants, fit into one
\* layer of the board without sharing a cell
Packable(board, ptype, n) ==
    \E A \in SUBSET Candidates(NewBoard(board.depth, board.rows, board.cols), ptype) :
        /\ Cardinality(A) = n
        /\ \A a, b \in A : a # b => a \cap b = {}

\* C19: the capacity check rejects only impossible requests: when place_all
\* fails with CapacityExceeded for a type and count n, no collision-free
\* arrangement of n vessels of that type exists inside one layer.
C19_RejectsOnlyImpossible ==
    err = "CapacityExceeded" =>
       \A i \in 1..Len(cfg.counts) :
          (/\ cfg.counts[i][1] # "GENERAL"
           /\ cfg.counts[i][2] > LayerCapacity(cfg.rows, cfg.cols, cfg.counts[i][1]))
          => ~Packable(boards[0], cfg.counts[i][1], cfg.counts[i][2])

(***************************************************************************)
(* Properties of the helper functions (SpecShape)                          *)
(***************************************************************************)
Turned(S) == {<<o[2], 0 - o[1]>> : o \in S}

MinX(S) == CHOOSE m \in {o[1] : o \in S} : \A o \in S : m <= o[1]
MinY(S) == CHOOSE m \in {o[2] : o \in S} : \A o \in S : m <= o[2]

Shifted(S) == {<<o[1] - MinX(S), o[2] - MinY(S)>> : o \in S}

\* C15: for a non-empty base offset set, _get_rotations returns 1 to 4
\* variants, pairwise distinct, each normalized, and the list is closed under
\* rotation: turning a variant by (x,y) -> (y,-x) and normalizing gives a
\* variant of the list.
C15_RotationsClosed ==
    result.op = "get_rotations" =>
       LET rots == result.value
       IN  /\ Len(rots) \in 1..4
           /\ \A i, j \in 1..Len(rots) : i # j => rots[i] # rots[j]
           /\ \A i \in 1..Len(rots) : Shifted(rots[i]) = rots[i]
           /\ \A i \in 1..Len(rots) :
                 \E j \in 1..Len(rots) : Shifted(Turned(rots[i])) = rots[j]

\* the 2-cell line of src/test.py has exactly two variants
C15_Witness ==
    /\ arg = {<<0, 0>>, <<1, 0>>}
    /\ result.op = "get_rotations"
    /\ Len(result.value) = 2

\* C16: for a non-empty offset set S, normalizing normalize(S) again gives
\* the same set, the smallest x and the smallest y of normalize(S) are 0, and
\* normalize(S) has as many elements as S.
C16_NormalizeIdempotent ==
    result.op = "normalize" =>
       /\ normalize(result.value) = result.value
       /\ MinX(result.value) = 0
       /\ MinY(result.value) = 0
       /\ Cardinality(result.value) = Cardinality(arg)

\* an argument with negative offsets that normalize has to move
C16_Witness ==
    /\ result.op = "normalize"
    /\ arg = {<<0 - 1, 2>>, <<1, 0 - 1>>}
    /\ result.value = {<<0, 3>>, <<2, 0>>}

(***************************************************************************)
(* Frame properties of the match (Spec)                                    *)
(***************************************************************************)
\* C17: rendering a player's view changes no state: in every reachable
\* state the re-queries of _print_view leave the opponent board as it is, for
\* either player, and a loop iteration that only renders (show, a line that
\* does not parse, quit) keeps both boards, both shots sets and the turn.
C17_RenderChangesNothing ==
    /\ [](\A p \in {0, 1} : print_view(boards, shots, p).board = boards[1 - p])
    /\ [][last'.op \in {"show", "invalid", "quit"}
            => boards' = boards /\ shots' = shots /\ current' = current]_vars

\* a render after the current player has hit a cell of a multi-hit vessel
C17_Witness ==
    /\ last.op = "show"
    /\ \E c \in shots[current] :
          /\ c \in DOMAIN boards[1 - current].occupied
          /\ PieceTypeAt(boards[1 - current], c) = "DESTROYER"
    /\ \E c \in shots[current] : c \notin DOMAIN boards[1 - current].occupied

\* C18: a fire by player p leaves untouched the opponent's shots set, all of
\* p's own board, and on the opponent's board the coordinate index, the
\* vessel list and every vessel's type and coords; it adds the coordinate to
\* p's shots set.
C18_FireFrame ==
    [][(status = "IN_PROGRESS" /\ last'.coord \in InBounds(boards[0])
          /\ last'.coord \notin shots[current])
       => /\ shots'[1 - current] = shots[1 - current]
          /\ shots'[current] = shots[current] \cup {last'.coord}
          /\ boards'[current] = boards[current]
          /\ boards'[1 - current].occupied = boards[1 - current].occupied
          /\ Len(boards'[1 - current].pieces) = Len(boards[1 - current].pieces)
          /\ \A i \in 1..Len(boards[1 - current].pieces) :
                /\ boards'[1 - current].pieces[i].coords = boards[1 - current].pieces[i].coords
                /\ boards'[1 - current].pieces[i].piece_type
                      = boards[1 - current].pieces[i].piece_type
          /\ \A q \in {0, 1} :
                /\ boards'[q].depth = boards[q].depth
                /\ boards'[q].rows = boards[q].rows
                /\ boards'[q].cols = boards[q].cols]_vars

\* player 1 has just hit a vessel of player 0 after player 0 had fired
C18_Witness ==
    /\ last.op = "fire" /\ last.player = 1 /\ last.sig = "HIT"
    /\ shots[0] # {} /\ shots[1] # {}

HitsOn(board) == UNION {board.pieces[i].hits : i \in 1..Len(board.pieces)}

\* C20: in every reachable match state, for each player p the cells hit on
\* the opponent's board are exactly the coordinates p fired at that the
\* opponent's board has occupied.
C20_HitsAreFiredOccupied ==
    \A p \in {0, 1} :
        HitsOn(boards[1 - p]) = shots[p] \cap DOMAIN boards[1 - p].occupied

\* both players have fired at an occupied and at an empty cell
C20_Witness ==
    \A p \in {0, 1} :
        /\ \E c \in shots[p] : c \in DOMAIN boards[1 - p].occupied
        /\ \E c \in shots[p] : c \notin DOMAIN boards[1 - p].occupied

(***************************************************************************)
(* Termination of a match of fresh fires (SpecFresh)                       *)
(***************************************************************************)
GridSize == cfg.depth * cfg.rows * cfg.cols

\* C21: when every input is a fire at a coordinate of the grid that the
\* current player has not fired at, the match ends with a winner: no player
\* still in the match has fired at every coordinate, at most
\* 2 * depth * rows * cols fires are made, and a win is eventually declared.
C21_FreshFiresEndMatch ==
    /\ [](status = "IN_PROGRESS" => \A p \in {0, 1} : shots[p] # InBounds(boards[0]))
    /\ [](ShotsFired <= 2 * GridSize)
    /\ <>(status = "ENDED" /\ winner \in {0, 1})

\* the winner needed every coordinate of the grid: the General was the last
C21_Witness ==
    /\ status = "ENDED"
    /\ shots[winner] = InBounds(boards[0])
    /\ ShotsFired = 2 * GridSize - 1
    /\ PieceTypeAt(boards[1 - winner], last.coord) = "GENERAL"

====
